---- MODULE Spec2Model ----
(***************************************************************************)
(* Model of pick-runner-action: the Git-ref mutex (src/git-mutex.js) and   *)
(* the part of run() (src/main.js) that uses it.                           *)
(*                                                                         *)
(* Every client is one GitMutex instance in its own process.  All clients  *)
(* share one reference store that holds at most one ref named              *)
(* mutex/<lockKey>.  Time is the wall clock in milliseconds; it advances   *)
(* in steps of TickMs between any two steps of the clients, so every store *)
(* call and every sleep may take time.                                     *)
(***************************************************************************)
EXTENDS Integers, FiniteSets, Sequences, TLC

\* ---------------------------------------------------------------- bounds
MaxFaults == 1
MaxTicks == 3
MaxCalls == 2
MaxSteps == 12
MaxRunners == 2
TickMs == 100000

\* ------------------------------------------------------ program constants
LockTTL == 600000
DefaultTimeoutMs == 300000
DefaultRetryIntervalMs == 3000
StatusConflict == 422
StatusNotFound == 404
StatusOk == 200
StatusForbidden == 403
StatusServerError == 500
TestTimeoutMs == 3000
TestRetryIntervalMs == 1000
RecentCommitAgeMs == 60000
ScenarioTimeoutMs == 10000
IncludedMinutes == 3000

\* The competing clients; 0 names the crashed holder of an initial record.
Clients == {1, 2}
Horizon == MaxTicks * TickMs

\* Errors of the store that are neither the conflict nor the absence status.
OtherErrors == {StatusForbidden, StatusServerError}

\* The commits a lock ref can point at (lockData.sha = GITHUB_SHA) and the
\* author date of each, relative to the clock's start at 0.
Shas == {"old", "edge", "new"}
CommitDate(sha) ==
  CASE sha = "old" -> 0 - LockTTL - 1
    [] sha = "edge" -> TickMs - LockTTL
    [] OTHER -> 0 - RecentCommitAgeMs

\* (timeoutMs, retryIntervalMs) of a call of acquireLock: the defaults and the
\* values the test suite uses.
Params == {<<DefaultTimeoutMs, DefaultRetryIntervalMs>>,
           <<TestTimeoutMs, TestRetryIntervalMs>>}

\* A record of the store: the commit it points at, and (history) who created it,
\* its identity and when it was created.
NoAge == 0 - 1
NoRef == [sha |-> "none", by |-> 0, id |-> 0, at |-> 0]
RefExists(r) == r.sha # "none"
\* What the listeners of a process did when it ended: was the handle acquired
\* when the end began, and how many of their deletes reached the store.
NoLog == [cause |-> "none", held |-> FALSE, sent |-> 0]
\* The key all the clients that compete for `ref` were constructed with.
SharedKey == "k"
NoCall == [by |-> 0, op |-> "none", name |-> ""]
\* Each field is empty until run() has read or reported the thing.
NoInputs == [raised |-> <<>>, failure |-> <<>>, available |-> <<>>,
             recheck |-> <<>>, billing |-> <<>>]
NoApplication == [fn |-> "none", args |-> <<>>, value |-> <<>>]

VARIABLES
  now,        \* Date.now()
  ref,        \* the store: the ref mutex/<lockKey>, or NoRef
  initialRef, \* the record a crashed holder left before the start (history)
  nextId,     \* identity of the next record created (history)
  faults,     \* the store failures injected so far, in order
  sha,        \* lockData.sha of each client
  acquired,   \* this.acquired
  handlers,   \* how often setupCleanupHandlers ran
  pc,         \* control point of each client
  startTime,  \* acquireLock: startTime
  timeoutMs,  \* acquireLock: timeoutMs
  retryIntervalMs, \* acquireLock: retryIntervalMs
  wakeAt,     \* when the setTimeout of the backoff sleep is due
  seen,       \* checkAndCleanExpiredLock: the record read by getRef
  lockAge,    \* checkAndCleanExpiredLock: lockAge
  result,     \* outcome of the last acquireLock: none, true, false, raised
  raisedStatus, \* status of the error acquireLock raised
  calls,      \* how often the client has called acquireLock or run
  checkFault, \* a store failure hit the expiry check of this call (history)
  inRun,      \* the client is an execution of run()
  mutexKey,   \* run: the mutex-key input ("" when not given)
  output,     \* run: what it reported (runner-type and reason, or setFailed)
  conflicts,  \* conflicts the creates of the last acquireLock met (history)
  releaseOutcome, \* how the delete of the last releaseLock ended (history)
  guard,      \* the cleanup a signal or fault listener has in flight
  exitCode,   \* how the process ended, "running" while it has not
  guardLog,   \* what the listeners did at the end of the process (history)
  askedAt,    \* when the getCommit of the expiry check was sent (history)
  lockData,   \* this.lockData: what the constructor noted about the holder
  lockKey,    \* the lockKey each GitMutex was constructed with
  refs,       \* the names of the refs in the repository
  lastCall,   \* the last request on a named ref, as it reached the store (history)
  inputs,     \* run: what it read from its inputs and from the API (history)
  applied     \* the last application of a function of GitHubAPI: arguments, value

vars == <<now, ref, initialRef, nextId, faults, sha, acquired, handlers, pc, startTime,
          timeoutMs, retryIntervalMs, wakeAt, seen, lockAge, result,
          raisedStatus, calls, checkFault, inRun, mutexKey, output,
          conflicts, releaseOutcome, guard, exitCode, guardLog, askedAt,
          lockData, lockKey, refs, lastCall, inputs, applied>>

\* The state of the process around the handle.
life == <<guard, exitCode, guardLog>>
\* What the steps of acquireLock, releaseLock and run() leave alone.
apart == <<askedAt, lockData, lockKey, refs, lastCall, applied>>
aside == <<apart, inputs>>


\* The variables outside `free` as they are when nothing has used them.
Defaults(free) ==
  /\ IF "askedAt" \in free THEN TRUE ELSE askedAt = [c \in Clients |-> 0]
  /\ IF "lockData" \in free THEN TRUE
       ELSE lockData = [c \in Clients |-> [timestamp |-> 0]]
  /\ IF "lockKey" \in free THEN TRUE ELSE lockKey = [c \in Clients |-> SharedKey]
  /\ IF "refs" \in free THEN TRUE ELSE refs = {}
  /\ IF "lastCall" \in free THEN TRUE ELSE lastCall = NoCall
  /\ IF "inputs" \in free THEN TRUE ELSE inputs = [c \in Clients |-> NoInputs]
  /\ IF "applied" \in free THEN TRUE ELSE applied = NoApplication

\* The clients, the store and the clock before anything has happened.
InitLock ==
  /\ now = 0
  /\ ref \in {NoRef} \cup {[sha |-> s, by |-> 0, id |-> 0, at |-> CommitDate(s)] : s \in Shas}
  /\ initialRef = ref
  /\ nextId = 1
  /\ faults = <<>>
  /\ sha \in [Clients -> {"old", "new"}]
  /\ acquired = [c \in Clients |-> FALSE]
  /\ handlers = [c \in Clients |-> 0]
  /\ pc = [c \in Clients |-> "idle"]
  /\ startTime = [c \in Clients |-> 0]
  /\ timeoutMs = [c \in Clients |-> 0]
  /\ retryIntervalMs = [c \in Clients |-> 0]
  /\ wakeAt = [c \in Clients |-> 0]
  /\ seen = [c \in Clients |-> NoRef]
  /\ lockAge = [c \in Clients |-> NoAge]
  /\ result = [c \in Clients |-> "none"]
  /\ raisedStatus = [c \in Clients |-> 0]
  /\ calls = [c \in Clients |-> 0]
  /\ checkFault = [c \in Clients |-> FALSE]
  /\ inRun = [c \in Clients |-> FALSE]
  /\ mutexKey = [c \in Clients |-> ""]
  /\ output = [c \in Clients |-> "none"]
  /\ conflicts = [c \in Clients |-> 0]
  /\ releaseOutcome = [c \in Clients |-> "none"]
  /\ guard = [c \in Clients |-> "none"]
  /\ exitCode = [c \in Clients |-> "running"]
  /\ guardLog = [c \in Clients |-> NoLog]

Init == InitLock /\ Defaults({})

\* ------------------------------------------------------------ the store
\* What the store answers when no failure is injected.
createRefStatus(r) == IF RefExists(r) THEN StatusConflict ELSE StatusOk
getRefStatus(r) == IF RefExists(r) THEN StatusOk ELSE StatusNotFound
getCommitStatus(s) == IF s \in Shas THEN StatusOk ELSE StatusNotFound
deleteRefStatus(r) == IF RefExists(r) THEN StatusOk ELSE StatusConflict

\* The answers a call can get: the store's own, or an injected failure.
Responses(real) == {real} \cup (IF Len(faults) < MaxFaults THEN OtherErrors ELSE {})
LogFault(st) == IF st \in OtherErrors THEN Append(faults, st) ELSE faults

\* ------------------------------------------------------ decisions of the code
\* acquireLock: while (Date.now() - startTime < timeoutMs)
LoopCondition_Inclusive(t, start, timeout) == t - start <= timeout
LoopCondition(t, start, timeout) == t - start < timeout
\* acquireLock: if (error.status === 422)
IsConflict_AnyError(st) == st # StatusOk
IsConflict(st) == st = StatusConflict
\* checkAndCleanExpiredLock: if (lockAge > 600000)
IsExpired_Never(age) == FALSE
IsExpired_Always(age) == TRUE
IsExpired_AtTTL(age) == age >= LockTTL
IsExpired(age) == age > LockTTL
\* checkAndCleanExpiredLock: commitTime = new Date(commit.author.date).getTime(),
\* of the commit the record read from the store points at.
LockTime_SelfReported(r) == lockData[r.by].timestamp
LockTime(r) == CommitDate(r.sha)
\* checkAndCleanExpiredLock: catch (error) { if (error.status === 404) return true ... } return false
CheckCatch(st) == st = StatusNotFound
\* releaseLock: if (!this.acquired) return
NothingToRelease_Never(a) == FALSE
NothingToRelease(a) == ~a
\* releaseLock: catch (error) { if (error.status === 422) this.acquired = false }
ReleaseCatch_None(st) == FALSE
ReleaseCatch_Any(st) == TRUE
ReleaseCatch(st) == st = StatusConflict
\* acquireLock: await new Promise((resolve) => setTimeout(resolve, retryIntervalMs))
TimerDue_AtOnce(t, due) == TRUE
TimerDue(t, due) == t >= due
\* acquireLock: return false, after the loop
TimeoutResult_Raised == "raised"
TimeoutResult == "false"

\* acquireLock returns `res` to its caller; the locals of the call are gone.
ReturnTo(c, res, toRun) ==
  /\ pc' = [pc EXCEPT ![c] = IF toRun THEN "afterAcquire" ELSE "idle"]
  /\ result' = [result EXCEPT ![c] = res]
  /\ startTime' = [startTime EXCEPT ![c] = 0]
  /\ timeoutMs' = [timeoutMs EXCEPT ![c] = 0]
  /\ retryIntervalMs' = [retryIntervalMs EXCEPT ![c] = 0]
Return(c, res) == ReturnTo(c, res, inRun[c])

\* checkAndCleanExpiredLock returned `cleaned` to acquireLock: continue at once,
\* or start the backoff sleep.
AfterCheck_AlwaysSleep(c, cleaned) ==
  /\ pc' = [pc EXCEPT ![c] = "sleep"]
  /\ wakeAt' = [wakeAt EXCEPT ![c] = now + retryIntervalMs[c]]
AfterCheck(c, cleaned) ==
  IF cleaned
    THEN /\ pc' = [pc EXCEPT ![c] = "loop"]
         /\ UNCHANGED wakeAt
    ELSE /\ pc' = [pc EXCEPT ![c] = "sleep"]
         /\ wakeAt' = [wakeAt EXCEPT ![c] = now + retryIntervalMs[c]]

\* ------------------------------------------------------------ acquireLock
\* The entry of acquireLock: startTime is read and the loop condition is
\* evaluated for the first time without any await in between.
Enter(c, timeout, retryInterval, fromRun) ==
  IF LoopCondition(now, now, timeout)
    THEN /\ pc' = [pc EXCEPT ![c] = "createRef"]
         /\ result' = [result EXCEPT ![c] = "none"]
         /\ startTime' = [startTime EXCEPT ![c] = now]
         /\ timeoutMs' = [timeoutMs EXCEPT ![c] = timeout]
         /\ retryIntervalMs' = [retryIntervalMs EXCEPT ![c] = retryInterval]
    ELSE ReturnTo(c, TimeoutResult, fromRun)

\* A caller that calls acquireLock on its handle at most `limit` times, with
\* (timeoutMs, retryIntervalMs) out of `params`.
acquireLockWith(c, limit, params) ==
  /\ pc[c] = "idle"
  /\ ~inRun[c]
  /\ ~acquired[c]
  /\ calls[c] < limit
  /\ \E p \in params : Enter(c, p[1], p[2], FALSE)
  /\ calls' = [calls EXCEPT ![c] = @ + 1]
  /\ checkFault' = [checkFault EXCEPT ![c] = FALSE]
  /\ conflicts' = [conflicts EXCEPT ![c] = 0]
  /\ UNCHANGED <<now, ref, nextId, faults, sha, acquired, handlers, wakeAt,
                 seen, lockAge, raisedStatus>>
  /\ UNCHANGED <<initialRef, aside, inRun, mutexKey, output>>
  /\ UNCHANGED <<releaseOutcome, life>>

\* run() creates one GitMutex and calls acquireLock on it once.
acquireLock(c) == acquireLockWith(c, 1, Params)

LoopHead(c) ==
  /\ pc[c] = "loop"
  /\ IF LoopCondition(now, startTime[c], timeoutMs[c])
       THEN /\ pc' = [pc EXCEPT ![c] = "createRef"]
            /\ UNCHANGED <<result, startTime, timeoutMs, retryIntervalMs>>
       ELSE Return(c, TimeoutResult)
  /\ lockAge' = [lockAge EXCEPT ![c] = NoAge]
  /\ UNCHANGED <<now, ref, nextId, faults, sha, acquired, handlers, wakeAt,
                 seen, raisedStatus, calls, checkFault>>
  /\ UNCHANGED <<initialRef, aside, inRun, mutexKey, output>>
  /\ UNCHANGED <<conflicts, releaseOutcome, life>>

\* `observed`: the conflicts the creates meet are counted (by a test's store).
CreateRefObserved(c, observed) ==
  /\ pc[c] = "createRef"
  /\ \E st \in Responses(createRefStatus(ref)) :
       /\ faults' = LogFault(st)
       /\ IF st = StatusOk
            THEN /\ ref' = [sha |-> sha[c], by |-> c, id |-> nextId, at |-> now]
                 /\ nextId' = nextId + 1
                 /\ acquired' = [acquired EXCEPT ![c] = TRUE]
                 /\ handlers' = [handlers EXCEPT ![c] = @ + 1]
                 /\ Return(c, "true")
                 /\ UNCHANGED raisedStatus
            ELSE IF IsConflict(st)
            THEN /\ pc' = [pc EXCEPT ![c] = "getRef"]
                 /\ UNCHANGED <<ref, nextId, acquired, handlers, result,
                                raisedStatus, startTime, timeoutMs,
                                retryIntervalMs>>
            ELSE /\ Return(c, "raised")
                 /\ raisedStatus' = [raisedStatus EXCEPT ![c] = st]
                 /\ UNCHANGED <<ref, nextId, acquired, handlers>>
       /\ conflicts' = [conflicts EXCEPT ![c] =
                          IF observed /\ st = StatusConflict THEN @ + 1 ELSE @]
  /\ UNCHANGED <<now, sha, wakeAt, seen, lockAge, calls, checkFault>>
  /\ UNCHANGED <<initialRef, aside, inRun, mutexKey, output>>
  /\ UNCHANGED <<releaseOutcome, life>>

CreateRef(c) == CreateRefObserved(c, FALSE)

\* ------------------------------------------- checkAndCleanExpiredLock
\* `observed`: the moment the getCommit is sent is noted.
GetRefObserved(c, observed) ==
  /\ pc[c] = "getRef"
  /\ \E st \in Responses(getRefStatus(ref)) :
       /\ faults' = LogFault(st)
       /\ checkFault' = [checkFault EXCEPT ![c] = @ \/ st \in OtherErrors]
       /\ IF st = StatusOk
            THEN /\ seen' = [seen EXCEPT ![c] = ref]
                 /\ pc' = [pc EXCEPT ![c] = "getCommit"]
                 /\ UNCHANGED wakeAt
            ELSE /\ AfterCheck(c, CheckCatch(st))
                 /\ UNCHANGED seen
       /\ askedAt' = [askedAt EXCEPT ![c] =
                        IF observed /\ st = StatusOk THEN now ELSE @]
  /\ UNCHANGED <<now, ref, nextId, sha, acquired, handlers, startTime,
                 timeoutMs, retryIntervalMs, lockAge, result, raisedStatus,
                 calls>>
  /\ UNCHANGED <<initialRef, inRun, mutexKey, output>>
  /\ UNCHANGED <<lockData, lockKey, refs, lastCall, inputs, applied>>
  /\ UNCHANGED <<conflicts, releaseOutcome, life>>

GetRef(c) == GetRefObserved(c, FALSE)

GetCommit(c) ==
  /\ pc[c] = "getCommit"
  /\ \E st \in Responses(getCommitStatus(seen[c].sha)) :
       /\ faults' = LogFault(st)
       /\ checkFault' = [checkFault EXCEPT ![c] = @ \/ st \in OtherErrors]
       /\ IF st = StatusOk
            THEN /\ lockAge' = [lockAge EXCEPT ![c] = now - LockTime(seen[c])]
                 /\ IF IsExpired(now - LockTime(seen[c]))
                      THEN /\ pc' = [pc EXCEPT ![c] = "deleteRef"]
                           /\ UNCHANGED <<wakeAt, seen>>
                      ELSE /\ AfterCheck(c, FALSE)
                           /\ seen' = [seen EXCEPT ![c] = NoRef]
            ELSE /\ AfterCheck(c, CheckCatch(st))
                 /\ seen' = [seen EXCEPT ![c] = NoRef]
                 /\ UNCHANGED lockAge
  /\ UNCHANGED <<now, ref, nextId, sha, acquired, handlers, startTime,
                 timeoutMs, retryIntervalMs, result, raisedStatus, calls>>
  /\ UNCHANGED <<initialRef, aside, inRun, mutexKey, output>>
  /\ UNCHANGED <<conflicts, releaseOutcome, life>>

DeleteExpiredRef(c) ==
  /\ pc[c] = "deleteRef"
  /\ \E st \in Responses(deleteRefStatus(ref)) :
       /\ faults' = LogFault(st)
       /\ checkFault' = [checkFault EXCEPT ![c] = @ \/ st \in OtherErrors]
       /\ IF st = StatusOk
            THEN /\ ref' = NoRef
                 /\ AfterCheck(c, TRUE)
            ELSE /\ AfterCheck(c, CheckCatch(st))
                 /\ UNCHANGED ref
  /\ seen' = [seen EXCEPT ![c] = NoRef]
  /\ lockAge' = [lockAge EXCEPT ![c] = NoAge]
  /\ UNCHANGED <<now, nextId, sha, acquired, handlers, startTime, timeoutMs,
                 retryIntervalMs, result, raisedStatus, calls>>
  /\ UNCHANGED <<initialRef, aside, inRun, mutexKey, output>>
  /\ UNCHANGED <<conflicts, releaseOutcome, life>>

\* The backoff sleep: setTimeout(resolve, retryIntervalMs) fires no earlier than due.
Wake(c) ==
  /\ pc[c] = "sleep"
  /\ TimerDue(now, wakeAt[c])
  /\ pc' = [pc EXCEPT ![c] = "loop"]
  /\ wakeAt' = [wakeAt EXCEPT ![c] = 0]
  /\ UNCHANGED <<now, ref, nextId, faults, sha, acquired, handlers, startTime,
                 timeoutMs, retryIntervalMs, seen, lockAge, result,
                 raisedStatus, calls, checkFault>>
  /\ UNCHANGED <<initialRef, aside, inRun, mutexKey, output>>
  /\ UNCHANGED <<conflicts, releaseOutcome, life>>

\* ------------------------------------------------------------ releaseLock
\* How the store answered the delete of a release: done, no such ref, failed.
DeleteOutcome(st) ==
  CASE st = StatusOk -> "deleted"
    [] st = StatusConflict -> "absent"
    [] OTHER -> "error"

releaseLock(c) ==
  /\ pc[c] = "idle"
  /\ ~inRun[c]
  /\ IF NothingToRelease(acquired[c])
       THEN UNCHANGED pc
       ELSE pc' = [pc EXCEPT ![c] = "releaseDelete"]
  /\ UNCHANGED <<now, ref, nextId, faults, sha, acquired, handlers, startTime,
                 timeoutMs, retryIntervalMs, wakeAt, seen, lockAge, result,
                 raisedStatus, calls, checkFault>>
  /\ UNCHANGED <<initialRef, aside, inRun, mutexKey, output>>
  /\ UNCHANGED <<conflicts, releaseOutcome, life>>

ReleaseDelete(c) ==
  /\ pc[c] = "releaseDelete"
  /\ \E st \in Responses(deleteRefStatus(ref)) :
       /\ faults' = LogFault(st)
       /\ ref' = IF st = StatusOk THEN NoRef ELSE ref
       /\ acquired' = [acquired EXCEPT ![c] =
                         IF st = StatusOk \/ ReleaseCatch(st) THEN FALSE ELSE @]
       /\ releaseOutcome' = [releaseOutcome EXCEPT ![c] = DeleteOutcome(st)]
  /\ pc' = [pc EXCEPT ![c] = IF inRun[c] THEN "billing" ELSE "idle"]
  /\ UNCHANGED <<now, nextId, sha, handlers, startTime, timeoutMs,
                 retryIntervalMs, wakeAt, seen, lockAge, result, raisedStatus,
                 calls, checkFault>>
  /\ UNCHANGED <<initialRef, aside, inRun, mutexKey, output>>
  /\ UNCHANGED <<conflicts, life>>

\* ------------------------------------------------------------------ run()
\* What isOrganization or getBillingInfo can raise (the fetch of the runners
\* raises nothing).
FetchErrors ==
  [from : {"isOrganization", "getBillingInfo"}, isError : {TRUE},
   message : {"API Error", "Bad credentials", "Not Found"}]

\* run, catch: the hint appended for the common errors.
Hint(message) ==
  CASE message = "Bad credentials" -> <<"Authentication failed">>
    [] message = "Not Found" -> <<"Resource not found">>
    [] OTHER -> <<>>
\* run, catch: the argument of core.setFailed, in its parts.
FailureMessage_Unknown(error) == <<"Action failed with unknown error">>
FailureMessage(error) ==
  IF error.isError
    THEN <<"Action failed: ", error.message>> \o Hint(error.message)
    ELSE <<"Action failed with unknown error">>

\* run: if (selfHostedAvailable) { if (mutexKey) { ... mutex.acquireLock()
UsesMutex_KeyOnly(available, key) == key # ""
UsesMutex(available, key) == available /\ key # ""

\* What getBillingInfo returned and the github-hosted-limit input.
UsedMinutes == {1000, 2500, 3500}
Limits == {1000, 2000}
BillingReadings ==
  [info : [included_minutes : {IncludedMinutes}, total_minutes_used : UsedMinutes],
   limit : Limits]

\* hasSufficientGitHubHostedMinutes(billingInfo, limit)
hasSufficientGitHubHostedMinutes_Strict(billingInfo, limit) ==
  billingInfo.included_minutes - billingInfo.total_minutes_used > limit
hasSufficientGitHubHostedMinutes_Never(billingInfo, limit) == FALSE
hasSufficientGitHubHostedMinutes(billingInfo, limit) ==
  billingInfo.included_minutes - billingInfo.total_minutes_used >= limit

\* The inputs of run() that come from the GitHub API (the runner listing, the
\* billing figures) are drawn where run() reads them.
\*   raised: what isOrganization / getBillingInfo raised, if anything;
\*   selfHostedAvailable: hasAvailableSelfHostedRunners(runners, selfHostedTags).
\* `observed`: what run() reads and reports is noted in `inputs`.
runObserved(c, observed) ==
  /\ pc[c] = "idle"
  /\ calls[c] = 0
  /\ inRun' = [inRun EXCEPT ![c] = TRUE]
  /\ calls' = [calls EXCEPT ![c] = 1]
  /\ \E key \in {"", "k"}, raised \in {<<>>} \cup {<<e>> : e \in FetchErrors},
        selfHostedAvailable \in BOOLEAN :
       /\ mutexKey' = [mutexKey EXCEPT ![c] = key]
       /\ IF raised # <<>>
            THEN /\ output' = [output EXCEPT ![c] = "failed"]
                 /\ pc' = [pc EXCEPT ![c] = "returned"]
                 /\ UNCHANGED <<startTime, timeoutMs, retryIntervalMs, result>>
            ELSE IF UsesMutex(selfHostedAvailable, key)
            THEN \* mutex.acquireLock() with its default arguments
                 /\ Enter(c, DefaultTimeoutMs, DefaultRetryIntervalMs, TRUE)
                 /\ UNCHANGED output
            ELSE IF selfHostedAvailable
            THEN /\ output' = [output EXCEPT ![c] = "self-hosted"]
                 /\ pc' = [pc EXCEPT ![c] = "returned"]
                 /\ UNCHANGED <<startTime, timeoutMs, retryIntervalMs, result>>
            ELSE /\ pc' = [pc EXCEPT ![c] = "billing"]
                 /\ UNCHANGED <<output, startTime, timeoutMs, retryIntervalMs,
                                result>>
       /\ inputs' = [inputs EXCEPT ![c] =
            IF ~observed THEN @
            ELSE IF raised # <<>>
            THEN [@ EXCEPT !.raised = raised,
                           !.failure = FailureMessage(raised[1])]
            ELSE [@ EXCEPT !.available = <<selfHostedAvailable>>]]
  /\ UNCHANGED <<now, ref, nextId, faults, sha, acquired, handlers, wakeAt,
                 seen, lockAge, raisedStatus, checkFault>>
  /\ UNCHANGED <<initialRef, apart>>
  /\ UNCHANGED <<conflicts, releaseOutcome, life>>

run(c) == runObserved(c, FALSE)

\* run(), the runners still available with the lock held: after the outputs,
\* "Note: mutex will be automatically released by cleanup handlers", return.
AfterSelected == "returned"

\* run(), after mutex.acquireLock() returned or raised.
\*   stillAvailable: the re-check of the runners once the lock is held.
AfterAcquireObserved(c, observed) ==
  /\ pc[c] = "afterAcquire"
  /\ IF result[c] = "true"
       THEN \E stillAvailable \in BOOLEAN :
              /\ IF stillAvailable
                   THEN /\ output' = [output EXCEPT ![c] = "self-hosted-mutex"]
                        /\ pc' = [pc EXCEPT ![c] = AfterSelected]
                   ELSE \* await mutex.releaseLock(); acquired is true here
                        /\ pc' = [pc EXCEPT ![c] = "releaseDelete"]
                        /\ UNCHANGED output
              /\ inputs' = [inputs EXCEPT ![c] =
                   IF observed THEN [@ EXCEPT !.recheck = <<stillAvailable>>]
                               ELSE @]
       ELSE \* lock not acquired, or the catch of the mutex error
            /\ pc' = [pc EXCEPT ![c] = "billing"]
            /\ UNCHANGED <<output, inputs>>
  /\ UNCHANGED <<now, ref, nextId, faults, sha, acquired, handlers, startTime,
                 timeoutMs, retryIntervalMs, wakeAt, seen, lockAge, result,
                 raisedStatus, calls, checkFault, inRun, mutexKey>>
  /\ UNCHANGED <<initialRef, apart>>
  /\ UNCHANGED <<conflicts, releaseOutcome, life>>

AfterAcquire(c) == AfterAcquireObserved(c, FALSE)

\* run(), the lock held: the re-check of the runners raises (the listing is
\* rejected, or hasAvailableSelfHostedRunners throws on a listed runner without
\* labels).  catch (error): core.warning(`Mutex error: ...`), core.info(...),
\* and on to the minutes check.
RecheckRaises(c) ==
  /\ pc[c] = "afterAcquire"
  /\ result[c] = "true"
  /\ pc' = [pc EXCEPT ![c] = "billing"]
  /\ UNCHANGED <<now, ref, nextId, faults, sha, acquired, handlers, startTime,
                 timeoutMs, retryIntervalMs, wakeAt, seen, lockAge, result,
                 raisedStatus, calls, checkFault, inRun, mutexKey, output>>
  /\ UNCHANGED <<initialRef, aside>>
  /\ UNCHANGED <<conflicts, releaseOutcome, life>>

\* run(), from "Check GitHub-hosted runner usage" to its end.
BillingObserved(c, observed) ==
  /\ pc[c] = "billing"
  /\ \E reading \in BillingReadings :
       /\ output' = [output EXCEPT ![c] =
            IF hasSufficientGitHubHostedMinutes(reading.info, reading.limit)
              THEN "github-hosted"
              ELSE "self-hosted-fallback"]
       /\ inputs' = [inputs EXCEPT ![c] =
            IF observed THEN [@ EXCEPT !.billing = <<reading>>] ELSE @]
  /\ pc' = [pc EXCEPT ![c] = "returned"]
  /\ UNCHANGED <<now, ref, nextId, faults, sha, acquired, handlers, startTime,
                 timeoutMs, retryIntervalMs, wakeAt, seen, lockAge, result,
                 raisedStatus, calls, checkFault, inRun, mutexKey>>
  /\ UNCHANGED <<initialRef, apart>>
  /\ UNCHANGED <<conflicts, releaseOutcome, life>>

Billing(c) == BillingObserved(c, FALSE)

\* run: the `reason` output that goes with an output of run(), in its parts.
Reason(out, key, reading) ==
  CASE out = "self-hosted" -> <<"Self-hosted runners are available">>
    [] out = "self-hosted-mutex" ->
         <<"Self-hosted runners available with mutex protection (", key, ")">>
    [] out = "github-hosted" ->
         <<"GitHub-hosted runners have sufficient remaining minutes">>
    [] out = "self-hosted-fallback" ->
         <<"GitHub-hosted runners insufficient", "using self-hosted as fallback">>
    [] OTHER -> <<>>

\* runner-type of an output of run().
RunnerType_SetOnFailure(out) == IF out = "none" THEN "none" ELSE "self-hosted"
RunnerType(out) ==
  CASE out \in {"self-hosted", "self-hosted-mutex", "self-hosted-fallback"} -> "self-hosted"
    [] out = "github-hosted" -> "github-hosted"
    [] OTHER -> "none"

\* ------------------------------------------------------------------ time
Tick ==
  /\ now + TickMs <= Horizon
  /\ now' = now + TickMs
  /\ UNCHANGED <<ref, nextId, faults, sha, acquired, handlers, pc, startTime,
                 timeoutMs, retryIntervalMs, wakeAt, seen, lockAge, result,
                 raisedStatus, calls, checkFault>>
  /\ UNCHANGED <<initialRef, aside, inRun, mutexKey, output>>
  /\ UNCHANGED <<conflicts, releaseOutcome, life>>

\* The steps inside acquireLock, after its entry.
AcquireStep(c) ==
  \/ LoopHead(c)
  \/ GetRef(c)
  \/ GetCommit(c)
  \/ DeleteExpiredRef(c)
  \/ Wake(c)

\* The steps of run() around the lock.
RunStep(c) ==
  \/ run(c)
  \/ AfterAcquire(c)
  \/ Billing(c)

Next ==
  \/ Tick
  \/ \E c \in Clients :
       \/ acquireLock(c)
       \/ CreateRef(c)
       \/ AcquireStep(c)
       \/ releaseLock(c)
       \/ ReleaseDelete(c)
       \/ RunStep(c)

Spec == Init /\ [][Next]_vars

\* ------------------------------------------------------ a handle reused
\* One client alone with the store, which may hold the record of an earlier
\* holder.
Processes == {1}
InitAlone ==
  /\ Init
  /\ sha = [c \in Clients |-> "new"]

\* A caller that uses its handle for several acquireLock / releaseLock rounds.
acquireLockAgain(c) == acquireLockWith(c, MaxCalls, Params)

NextHandle ==
  \/ Tick
  \/ \E c \in Processes :
       \/ acquireLockAgain(c)
       \/ CreateRef(c)
       \/ AcquireStep(c)
       \/ releaseLock(c)
       \/ ReleaseDelete(c)

SpecHandle == InitAlone /\ [][NextHandle]_vars

\* ------------------------------------------------- the end-to-end scenario
\* Client Holder holds the lock from t = 0 and releases it at ReleaseAtMs;
\* client Waiter calls acquireLock(ScenarioTimeoutMs, TestRetryIntervalMs) at
\* CallAtMs.  The clock advances in steps of the retry interval, and the store
\* counts the conflicts.
Holder == CHOOSE c \in Clients : \A d \in Clients : c <= d
Waiter == CHOOSE c \in Clients : \A d \in Clients : c >= d
StepMs == TestRetryIntervalMs
CallAtMs == 1 * StepMs
ReleaseAtMs == 9 * StepMs
ScenarioHorizon == MaxSteps * StepMs

InitScenario ==
  /\ now = 0
  /\ ref = [sha |-> "new", by |-> Holder, id |-> 1, at |-> 0]
  /\ initialRef = NoRef
  /\ nextId = 2
  /\ faults = <<>>
  /\ sha = [c \in Clients |-> "new"]
  /\ acquired = [c \in Clients |-> c = Holder]
  /\ handlers = [c \in Clients |-> IF c = Holder THEN 1 ELSE 0]
  /\ pc = [c \in Clients |-> "idle"]
  /\ startTime = [c \in Clients |-> 0]
  /\ timeoutMs = [c \in Clients |-> 0]
  /\ retryIntervalMs = [c \in Clients |-> 0]
  /\ wakeAt = [c \in Clients |-> 0]
  /\ seen = [c \in Clients |-> NoRef]
  /\ lockAge = [c \in Clients |-> NoAge]
  /\ result = [c \in Clients |-> IF c = Holder THEN "true" ELSE "none"]
  /\ raisedStatus = [c \in Clients |-> 0]
  /\ calls = [c \in Clients |-> IF c = Holder THEN 1 ELSE 0]
  /\ checkFault = [c \in Clients |-> FALSE]
  /\ inRun = [c \in Clients |-> FALSE]
  /\ mutexKey = [c \in Clients |-> ""]
  /\ output = [c \in Clients |-> "none"]
  /\ conflicts = [c \in Clients |-> 0]
  /\ releaseOutcome = [c \in Clients |-> "none"]
  /\ guard = [c \in Clients |-> "none"]
  /\ exitCode = [c \in Clients |-> "running"]
  /\ guardLog = [c \in Clients |-> NoLog]
  /\ Defaults({})

StepClock ==
  /\ now + StepMs <= ScenarioHorizon
  /\ now' = now + StepMs
  /\ UNCHANGED <<ref, nextId, faults, sha, acquired, handlers, pc, startTime,
                 timeoutMs, retryIntervalMs, wakeAt, seen, lockAge, result,
                 raisedStatus, calls, checkFault>>
  /\ UNCHANGED <<initialRef, aside, inRun, mutexKey, output>>
  /\ UNCHANGED <<conflicts, releaseOutcome, life>>

WaiterCalls ==
  /\ now = CallAtMs
  /\ acquireLockWith(Waiter, 1, {<<ScenarioTimeoutMs, TestRetryIntervalMs>>})

HolderReleases ==
  /\ now = ReleaseAtMs
  /\ releaseLock(Holder) \/ ReleaseDelete(Holder)

NextScenario ==
  \/ StepClock
  \/ WaiterCalls
  \/ HolderReleases
  \/ CreateRefObserved(Waiter, TRUE)
  \/ LoopHead(Waiter)
  \/ GetRef(Waiter)
  \/ GetCommit(Waiter)
  \/ Wake(Waiter)

SpecScenario == InitScenario /\ [][NextScenario]_vars

\* ------------------------------------------------- the process and its end
\* The process of c is gone; the locals of a call in progress go with it.
Gone(c, code, log) ==
  /\ pc' = [pc EXCEPT ![c] = "exited"]
  /\ exitCode' = [exitCode EXCEPT ![c] = code]
  /\ guardLog' = [guardLog EXCEPT ![c] = log]
  /\ guard' = [guard EXCEPT ![c] = "none"]
  /\ startTime' = [startTime EXCEPT ![c] = 0]
  /\ timeoutMs' = [timeoutMs EXCEPT ![c] = 0]
  /\ retryIntervalMs' = [retryIntervalMs EXCEPT ![c] = 0]
  /\ wakeAt' = [wakeAt EXCEPT ![c] = 0]
  /\ seen' = [seen EXCEPT ![c] = NoRef]
  /\ lockAge' = [lockAge EXCEPT ![c] = NoAge]

\* cleanup: if (this.acquired) await this.releaseLock()
CleanupReleases(c) == handlers[c] > 0 /\ acquired[c]

\* SIGINT or SIGTERM is delivered.  Without a listener the process is killed;
\* with process.on('SIGINT', cleanup) the cleanup runs and the process goes on.
\* One cleanup is in flight at a time.
Signal(c) ==
  /\ pc[c] # "exited"
  /\ guard[c] = "none"
  /\ IF handlers[c] = 0
       THEN Gone(c, "signal", [cause |-> "signal", held |-> acquired[c], sent |-> 0])
       ELSE /\ guard' = [guard EXCEPT ![c] = IF CleanupReleases(c) THEN "signal" ELSE @]
            /\ UNCHANGED <<pc, exitCode, guardLog, startTime, timeoutMs,
                           retryIntervalMs, wakeAt, seen, lockAge>>
  /\ UNCHANGED <<now, ref, initialRef, aside, nextId, faults, sha, acquired, handlers,
                 result, raisedStatus, calls, checkFault, inRun, mutexKey,
                 output, conflicts, releaseOutcome>>

\* An exception nobody catches.  Without a listener the process dies with
\* status 1; the 'uncaughtException' listener runs cleanup and then
\* process.exit(1).
FaultExitCode == "1"
Fault(c) ==
  /\ pc[c] # "exited"
  /\ guard[c] = "none"
  /\ IF CleanupReleases(c)
       THEN /\ guard' = [guard EXCEPT ![c] = "fault"]
            /\ UNCHANGED <<pc, exitCode, guardLog, startTime, timeoutMs,
                           retryIntervalMs, wakeAt, seen, lockAge>>
       ELSE Gone(c, FaultExitCode, [cause |-> "fault", held |-> acquired[c], sent |-> 0])
  /\ UNCHANGED <<now, ref, initialRef, aside, nextId, faults, sha, acquired, handlers,
                 result, raisedStatus, calls, checkFault, inRun, mutexKey,
                 output, conflicts, releaseOutcome>>

\* What follows the delete of a listener's cleanup: the signal listener is
\* done; the fault listener calls process.exit(1), whose 'exit' listeners can
\* start a release but nothing of it leaves the process any more.
AfterGuardDelete_Retry(c, st) ==
  IF guard[c] = "fault" /\ st = StatusOk
    THEN Gone(c, FaultExitCode, [cause |-> "fault", held |-> TRUE, sent |-> guardLog[c].sent + 1])
    ELSE /\ guardLog' = [guardLog EXCEPT ![c].sent = IF guard[c] = "fault" THEN @ + 1 ELSE @]
         /\ guard' = [guard EXCEPT ![c] = IF guard[c] = "fault" THEN @ ELSE "none"]
         /\ UNCHANGED <<pc, exitCode, startTime, timeoutMs, retryIntervalMs,
                        wakeAt, seen, lockAge>>
AfterGuardDelete_Hang(c, st) ==
  UNCHANGED <<pc, exitCode, guardLog, guard, startTime, timeoutMs,
              retryIntervalMs, wakeAt, seen, lockAge>>
AfterGuardDelete(c, st) ==
  IF guard[c] = "fault"
    THEN Gone(c, FaultExitCode, [cause |-> "fault", held |-> TRUE, sent |-> 1])
    ELSE /\ guard' = [guard EXCEPT ![c] = "none"]
         /\ UNCHANGED <<pc, exitCode, guardLog, startTime, timeoutMs,
                        retryIntervalMs, wakeAt, seen, lockAge>>

\* The store answers the delete of the releaseLock a listener's cleanup called.
GuardDelete(c) ==
  /\ guard[c] # "none"
  /\ \E st \in Responses(deleteRefStatus(ref)) :
       /\ faults' = LogFault(st)
       /\ ref' = IF st = StatusOk THEN NoRef ELSE ref
       /\ acquired' = [acquired EXCEPT ![c] =
                         IF st = StatusOk \/ ReleaseCatch(st) THEN FALSE ELSE @]
       /\ releaseOutcome' = [releaseOutcome EXCEPT ![c] = DeleteOutcome(st)]
       /\ AfterGuardDelete(c, st)
  /\ UNCHANGED <<now, initialRef, aside, nextId, sha, handlers, result, raisedStatus,
                 calls, checkFault, inRun, mutexKey, output, conflicts>>

\* The process ends because nothing is left to do: run() has returned, or the
\* program around the handle is finished.  process.on('exit', cleanup): the
\* listener is async, the process does not wait for it, so the delete of its
\* releaseLock may or may not leave the process, and its answer is never read.
ExitCode(out) == IF out = "failed" THEN "1" ELSE "0"
Exit(c) ==
  /\ pc[c] \in {"idle", "returned"}
  /\ guard[c] = "none"
  /\ \E sent \in {s \in BOOLEAN : s => CleanupReleases(c)} :
       /\ ref' = IF sent THEN NoRef ELSE ref
       /\ Gone(c, ExitCode(output[c]),
               [cause |-> "exit", held |-> acquired[c], sent |-> IF sent THEN 1 ELSE 0])
  /\ UNCHANGED <<now, initialRef, aside, nextId, faults, sha, acquired, handlers,
                 result, raisedStatus, calls, checkFault, inRun, mutexKey,
                 output, conflicts, releaseOutcome>>

\* The clients as processes that can be signalled, can fault and do end.
\* The client as a process that can be signalled, can fault and does end.
NextGuard ==
  \/ Tick
  \/ \E c \in Processes :
       \/ acquireLock(c)
       \/ CreateRef(c)
       \/ AcquireStep(c)
       \/ releaseLock(c)
       \/ ReleaseDelete(c)
       \/ RunStep(c)
       \/ Signal(c)
       \/ Fault(c)
       \/ GuardDelete(c)
       \/ Exit(c)

SpecGuard == InitAlone /\ [][NextGuard]_vars

\* The store answers every call, run() goes on when its awaits resolve, and
\* the process ends when nothing is left to do.
LiveSpecGuard ==
  /\ SpecGuard
  /\ \A c \in Processes :
       /\ WF_vars(GuardDelete(c))
       /\ WF_vars(ReleaseDelete(c))
       /\ WF_vars(RunStep(c))
       /\ WF_vars(Exit(c))

\* ------------------------------------------- a run() and a competitor
\* The process of Runner executes run() once and ends; Competitor calls
\* acquireLock and releaseLock for the same key.
Runner == 1
Competitor == 2
NextHeld ==
  \/ Tick
  \/ run(Runner)
  \/ CreateRef(Runner)
  \/ AcquireStep(Runner)
  \/ AfterAcquire(Runner)
  \/ ReleaseDelete(Runner)
  \/ Billing(Runner)
  \/ Signal(Runner)
  \/ Fault(Runner)
  \/ GuardDelete(Runner)
  \/ Exit(Runner)
  \/ acquireLock(Competitor)
  \/ CreateRef(Competitor)
  \/ AcquireStep(Competitor)
  \/ releaseLock(Competitor)
  \/ ReleaseDelete(Competitor)

SpecHeld == Init /\ [][NextHeld]_vars

\* ------------------------------------------------- the timeout of a call
\* One client calls acquireLock once, with a timeout that is negative, zero,
\* shorter than the retry interval or longer than it.  The clock advances in
\* steps of StepMs, so that the timeout can elapse during any await of the call,
\* and the moment the getCommit is sent is noted.
TimeoutParams ==
  {<<0 - TestRetryIntervalMs, TestRetryIntervalMs>>,
   <<0, TestRetryIntervalMs>>,
   <<TestRetryIntervalMs, TestTimeoutMs>>,
   <<TestTimeoutMs, TestRetryIntervalMs>>}

acquireLockTimed(c) == acquireLockWith(c, 1, TimeoutParams)

NextTimeout ==
  \/ StepClock
  \/ \E c \in Processes :
       \/ acquireLockTimed(c)
       \/ CreateRef(c)
       \/ LoopHead(c)
       \/ GetRefObserved(c, TRUE)
       \/ GetCommit(c)
       \/ DeleteExpiredRef(c)
       \/ Wake(c)

SpecTimeout == InitAlone /\ [][NextTimeout]_vars

\* ------------------------------------------- handles constructed earlier
\* The two clients compete for a record that none of them holds at the start.
\* The handle of a client was constructed either just now or more than the TTL
\* ago: lockData.timestamp is the Date.now() of the constructor.
ConstructedAt == {0, 0 - LockTTL - TickMs}

InitTrust ==
  /\ InitLock
  /\ ref = NoRef
  /\ lockData \in [Clients -> [timestamp : ConstructedAt]]
  /\ Defaults({"lockData"})

NextTrust ==
  \/ Tick
  \/ \E c \in Clients :
       \/ acquireLock(c)
       \/ CreateRef(c)
       \/ AcquireStep(c)
       \/ releaseLock(c)
       \/ ReleaseDelete(c)

SpecTrust == InitTrust /\ [][NextTrust]_vars

\* ------------------------------------------------- the names of the refs
\* The requests of a GitMutex by the name they carry: the clients are
\* constructed with keys out of Keys and send their creates, reads and deletes
\* in any order to a repository that holds other refs as well.
Keys == {SharedKey, "j", "k/j"}

\* constructor: this.lockRef = `mutex/${lockKey}`
lockRef_Unkeyed(key) == "mutex/" \o SharedKey
lockRef(key) == "mutex/" \o key
\* The `ref` parameter of createRef, of getRef and of deleteRef.
createRefParam(key) == "refs/" \o lockRef(key)
getRefParam(key) == lockRef(key)
deleteRefParam(key) == lockRef(key)

\* The store: createRef is given the fully qualified name of the ref, getRef
\* and deleteRef the name without its refs/ prefix.
Qualified(op, param) == IF op = "createRef" THEN param ELSE "refs/" \o param

OtherRefs == {"refs/heads/main", "refs/heads/mutex/k"}
RefNames == {"refs/mutex/" \o k : k \in Keys} \cup OtherRefs

InitNames ==
  /\ InitLock
  /\ ref = NoRef
  /\ sha = [c \in Clients |-> "new"]
  /\ lockKey \in [Clients -> Keys]
  /\ refs \in SUBSET RefNames
  /\ Defaults({"lockKey", "refs"})

\* The request `op` of c with `param` reaches the store.
Request(c, op, param) ==
  LET name == Qualified(op, param)
  IN /\ lastCall' = [by |-> c, op |-> op, name |-> name]
     /\ refs' = CASE op = "createRef" -> refs \cup {name}
                  [] op = "deleteRef" -> refs \ {name}
                  [] OTHER -> refs
     /\ UNCHANGED <<now, ref, initialRef, nextId, faults, sha, acquired,
                    handlers, pc, startTime, timeoutMs, retryIntervalMs,
                    wakeAt, seen, lockAge, result, raisedStatus, calls,
                    checkFault, inRun, mutexKey, output, conflicts,
                    releaseOutcome, life, askedAt, lockData, lockKey, inputs,
                    applied>>

createRefNamed(c) == Request(c, "createRef", createRefParam(lockKey[c]))
getRefNamed(c) == Request(c, "getRef", getRefParam(lockKey[c]))
deleteRefNamed(c) == Request(c, "deleteRef", deleteRefParam(lockKey[c]))

NextNames ==
  \E c \in Clients :
    \/ createRefNamed(c)
    \/ getRefNamed(c)
    \/ deleteRefNamed(c)

SpecNames == InitNames /\ [][NextNames]_vars

\* ------------------------------------------------------- run() observed
\* One execution of run(), alone with the store, which may hold the record of
\* an earlier holder; what run() reads and reports is noted.
NextRun ==
  \/ Tick
  \/ \E c \in Processes :
       \/ runObserved(c, TRUE)
       \/ CreateRef(c)
       \/ AcquireStep(c)
       \/ AfterAcquireObserved(c, TRUE)
       \/ RecheckRaises(c)
       \/ ReleaseDelete(c)
       \/ BillingObserved(c, TRUE)

SpecRun == InitAlone /\ [][NextRun]_vars

\* ------------------------------------- hasAvailableSelfHostedRunners
\* String.prototype.toLowerCase, trim and toUpperCase on the names in use.
toLowerCase(str) ==
  CASE str = "Linux" -> "linux"
    [] str = "GPU" -> "gpu"
    [] str = "X64" -> "x64"
    [] OTHER -> str
toUpperCase(str) ==
  CASE str \in {"linux", "Linux"} -> "LINUX"
    [] str \in {"gpu", "GPU"} -> "GPU"
    [] str \in {"x64", "X64"} -> "X64"
    [] str = "windows" -> "WINDOWS"
    [] str = "self-hosted" -> "SELF-HOSTED"
    [] OTHER -> str
trim(str) ==
  CASE str = " linux" -> "linux"
    [] str = "gpu " -> "gpu"
    [] str = " " -> ""
    [] OTHER -> str

\* run: selfHostedTagsInput.split(',').map((tag) => tag.trim())
\*        .filter((tag) => tag.length > 0), on the input already split.
ParseTags(raw) ==
  SelectSeq([i \in DOMAIN raw |-> trim(raw[i])], LAMBDA tag : tag # "")

\* The runners the API lists, and the tag inputs of the workflow.
LabelLists ==
  {<<>>, <<"linux", "self-hosted">>, <<"Linux", "GPU", "self-hosted">>,
   <<"windows", "self-hosted">>, <<"self-hosted", "X64">>}
Runners ==
  [status : {"online", "offline"}, busy : BOOLEAN, labels : LabelLists]
RunnerLists == UNION {[1..n -> Runners] : n \in 0..MaxRunners}
TagInputs ==
  {<<>>, <<" ">>, <<"linux">>, <<" linux", "gpu ">>, <<"Linux", "self-hosted">>,
   <<"x64">>, <<"windows", "GPU">>}

\* runner.labels.map((label) => label.name.toLowerCase())
runnerLabels_AsListed(runner) == runner.labels
runnerLabels(runner) ==
  [j \in DOMAIN runner.labels |-> toLowerCase(runner.labels[j])]

hasAvailableSelfHostedRunners(runners, tags) ==
  LET requiredTags == [i \in DOMAIN tags |-> toLowerCase(trim(tags[i]))]
  IN \E r \in DOMAIN runners :
       IF runners[r].status # "online" \/ runners[r].busy
         THEN FALSE
         ELSE \A t \in DOMAIN requiredTags :
                \E j \in DOMAIN runnerLabels(runners[r]) :
                  runnerLabels(runners[r])[j] = requiredTags[t]

\* run() has the runner listing and the tags it parsed from its input, and has
\* not yet asked whether a runner is available.
InitAvailable ==
  /\ InitLock
  /\ ref = NoRef
  /\ sha = [c \in Clients |-> "new"]
  /\ applied \in [fn : {"hasAvailableSelfHostedRunners"},
                  args : {<<runners, ParseTags(raw)>> :
                            runners \in RunnerLists, raw \in TagInputs},
                  value : {<<>>}]
  /\ Defaults({"applied"})

hasAvailableSelfHostedRunnersApplied ==
  /\ applied.fn = "hasAvailableSelfHostedRunners"
  /\ applied.value = <<>>
  /\ applied' = [applied EXCEPT
       !.value = <<hasAvailableSelfHostedRunners(applied.args[1], applied.args[2])>>]
  /\ UNCHANGED <<now, ref, initialRef, nextId, faults, sha, acquired, handlers,
                 pc, startTime, timeoutMs, retryIntervalMs, wakeAt, seen,
                 lockAge, result, raisedStatus, calls, checkFault, inRun,
                 mutexKey, output, conflicts, releaseOutcome, life, askedAt,
                 lockData, lockKey, refs, lastCall, inputs>>

NextAvailable == hasAvailableSelfHostedRunnersApplied

SpecAvailable == InitAvailable /\ [][NextAvailable]_vars

\* ------------------------------------------------ getSelfHostedRunners
\* What the API answers to a listing of runners: the runners, or an error
\* (403 and 404: no runners configured or not accessible; 500: server error).
RunnerNames == {"runner-1", "runner-2"}
Listings == UNION {[1..n -> RunnerNames] : n \in 0..MaxRunners}
ListingAnswers ==
  [status : {StatusOk}, runners : Listings]
    \cup [status : {StatusForbidden, StatusNotFound, StatusServerError},
          runners : {<<>>}]

\* .then((response) => ({type, runners: response.data.runners}))
\* .catch(() => { console.log(...); return {type, runners: []} }):
\* what the promise of one level settles to.  `raised` is the error the promise
\* rejects with, if it rejects.
LevelRunners_Rethrow(type, answer) ==
  IF answer.status = StatusOk
    THEN [type |-> type, runners |-> answer.runners, raised |-> <<>>]
    ELSE [type |-> type, runners |-> <<>>, raised |-> <<answer>>]
LevelRunners(type, answer) ==
  IF answer.status = StatusOk
    THEN [type |-> type, runners |-> answer.runners, raised |-> <<>>]
    ELSE [type |-> type, runners |-> <<>>, raised |-> <<>>]

getRepoRunners(answer) == LevelRunners("repo", answer)

\* result.runners.map((runner) => ({...runner, _source: result.type}))
runnersWithSource(level) ==
  [i \in DOMAIN level.runners |-> [name |-> level.runners[i], source |-> level.type]]

\* allRunners after results.forEach(...) over the levels.
RECURSIVE allRunners(_)
allRunners(results) ==
  IF results = <<>> THEN <<>>
  ELSE (IF Len(Head(results).runners) > 0 THEN runnersWithSource(Head(results))
                                         ELSE <<>>)
         \o allRunners(Tail(results))

\* getSelfHostedRunners(owner, repo, isOrg), the API answering the listing of
\* the repository with repoAnswer and that of the organization with orgAnswer:
\* the requests it sent, and the list it resolved to or the error it rejected
\* with (await Promise.all(promises) rejects with the error of a level that
\* rejected).
getSelfHostedRunners(repo, isOrg, repoAnswer, orgAnswer) ==
  LET requests == (IF repo # "" THEN <<"listSelfHostedRunnersForRepo">> ELSE <<>>)
                 \o (IF isOrg THEN <<"listSelfHostedRunnersForOrg">> ELSE <<>>)
      promises == (IF repo # "" THEN <<getRepoRunners(repoAnswer)>> ELSE <<>>)
                    \o (IF isOrg THEN <<LevelRunners("org", orgAnswer)>> ELSE <<>>)
      rejected == SelectSeq(promises, LAMBDA p : p.raised # <<>>)
  IN IF promises = <<>>
       THEN [calls |-> requests, raised |-> <<>>, runners |-> <<>>]
     ELSE IF rejected # <<>>
       THEN [calls |-> requests, raised |-> Head(rejected).raised, runners |-> <<>>]
     ELSE [calls |-> requests, raised |-> <<>>, runners |-> allRunners(promises)]

\* ------------------------------------------------------- getBillingInfo
StatusGone == 410
\* No status: an error that is not an answer of the API.
NoStatus == 0
\* error.message?.includes('endpoint has been moved')
includesMoved(message) == message = "This endpoint has been moved"

\* data.usageItems of the enhanced billing API.
UsageItems ==
  {[product |-> "actions", unitType |-> "Minutes", quantity |-> 1000],
   [product |-> "actions", unitType |-> "Minutes", quantity |-> 1500],
   [product |-> "codespaces", unitType |-> "Hours", quantity |-> 500],
   [product |-> "actions", unitType |-> "GigabyteHours", quantity |-> 7]}
UsageLists == UNION {[1..n -> UsageItems] : n \in 0..2}
BillingErrors ==
  {[status |-> StatusGone, message |-> "This endpoint has been moved", data |-> <<>>],
   [status |-> StatusNotFound, message |-> "This endpoint has been moved", data |-> <<>>],
   [status |-> StatusForbidden, message |-> "Resource not accessible by integration",
    data |-> <<>>],
   [status |-> StatusServerError, message |-> "Server Error", data |-> <<>>],
   [status |-> NoStatus, message |-> "Legacy API not available", data |-> <<>>]}
\* What the legacy API answers: the figures of the account, or an error.
LegacyAnswers ==
  {[status |-> StatusOk, message |-> "", data |-> <<info>>] :
      info \in [included_minutes : {2000, IncludedMinutes},
                total_minutes_used : UsedMinutes]}
    \cup BillingErrors
\* What the enhanced API answers: the usage items of the month, or an error.
EnhancedAnswers ==
  {[status |-> StatusOk, message |-> "", data |-> <<items>>] : items \in UsageLists}
    \cup BillingErrors

\* actionsUsage.reduce((sum, item) => sum + (item.quantity || 0), 0) over the
\* items with product 'actions' and unitType 'Minutes'.
RECURSIVE totalMinutes(_)
totalMinutes(usageItems) ==
  IF usageItems = <<>> THEN 0
  ELSE (IF Head(usageItems).product = "actions" /\ Head(usageItems).unitType = "Minutes"
          THEN Head(usageItems).quantity ELSE 0)
         + totalMinutes(Tail(usageItems))

\* getBillingInfo, catch (error): the defaults, or the error thrown again.
UsesDefaults(error) == error.status = StatusGone \/ includesMoved(error.message)

BillingDefaults == [included_minutes |-> IncludedMinutes, total_minutes_used |-> 0]

\* getBillingInfo, once the request `endpoint` was answered with `answer`:
\* what it resolves to or rejects with, or <<>> where it goes on to the next
\* request.
BillingFirst == "legacy"
BillingSecond == IF BillingFirst = "legacy" THEN "enhanced" ELSE "legacy"

BillingData(endpoint, answer) ==
  IF endpoint = "legacy"
    THEN answer.data[1]
    ELSE [included_minutes |-> IncludedMinutes,
          total_minutes_used |-> totalMinutes(answer.data[1])]

\* ------------------------------------------- the functions of GitHubAPI
\* A caller has the arguments of getSelfHostedRunners or of getBillingInfo,
\* and the API has its answers ready; nothing was called yet.
\*   calls: the requests sent so far, in order;
\*   value: <<>>, or what the function resolved to or rejected with.
InitApi ==
  /\ InitLock
  /\ ref = NoRef
  /\ sha = [c \in Clients |-> "new"]
  /\ applied \in
       [fn : {"getSelfHostedRunners"},
        args : {<<repo, isOrg, repoAnswer, orgAnswer>> :
                  repo \in {"", "test-repo"}, isOrg \in BOOLEAN,
                  repoAnswer \in ListingAnswers, orgAnswer \in ListingAnswers},
        calls : {<<>>}, value : {<<>>}]
       \cup
       [fn : {"getBillingInfo"},
        args : {<<isOrg, legacyAnswer, enhancedAnswer>> :
                  isOrg \in BOOLEAN, legacyAnswer \in LegacyAnswers,
                  enhancedAnswer \in EnhancedAnswers},
        calls : {<<>>}, value : {<<>>}]
  /\ Defaults({"applied"})

ApiFrame ==
  UNCHANGED <<now, ref, initialRef, nextId, faults, sha, acquired, handlers,
              pc, startTime, timeoutMs, retryIntervalMs, wakeAt, seen,
              lockAge, result, raisedStatus, calls, checkFault, inRun,
              mutexKey, output, conflicts, releaseOutcome, life, askedAt,
              lockData, lockKey, refs, lastCall, inputs>>

getSelfHostedRunnersApplied ==
  /\ applied.fn = "getSelfHostedRunners"
  /\ applied.value = <<>>
  /\ LET settled == getSelfHostedRunners(applied.args[1], applied.args[2],
                                         applied.args[3], applied.args[4])
     IN applied' = [applied EXCEPT
          !.calls = settled.calls,
          !.value = <<[raised |-> settled.raised, runners |-> settled.runners]>>]
  /\ ApiFrame

\* The answer the API has for a billing request.
BillingAnswer(endpoint) ==
  IF endpoint = "legacy" THEN applied.args[2] ELSE applied.args[3]

\* getBillingInfo: the first request and its answer ("Try legacy API first").
getBillingInfoFirst ==
  /\ applied.fn = "getBillingInfo"
  /\ applied.value = <<>>
  /\ applied.calls = <<>>
  /\ applied' = [applied EXCEPT
       !.calls = <<BillingFirst>>,
       !.value = IF BillingAnswer(BillingFirst).status = StatusOk
                   THEN <<[raised |-> <<>>,
                           info |-> <<BillingData(BillingFirst,
                                                  BillingAnswer(BillingFirst))>>]>>
                   ELSE <<>>]
  /\ ApiFrame

\* getBillingInfo, catch (legacyError): the second request and its answer, and
\* the outer catch when it failed too.
getBillingInfoSecond ==
  /\ applied.fn = "getBillingInfo"
  /\ applied.value = <<>>
  /\ Len(applied.calls) = 1
  /\ LET answer == BillingAnswer(BillingSecond)
     IN applied' = [applied EXCEPT
          !.calls = Append(@, BillingSecond),
          !.value =
            IF answer.status = StatusOk
              THEN <<[raised |-> <<>>, info |-> <<BillingData(BillingSecond, answer)>>]>>
            ELSE IF UsesDefaults(answer)
              THEN <<[raised |-> <<>>, info |-> <<BillingDefaults>>]>>
            ELSE <<[raised |-> <<answer>>, info |-> <<>>]>>]
  /\ ApiFrame

NextApi ==
  \/ getSelfHostedRunnersApplied
  \/ getBillingInfoFirst
  \/ getBillingInfoSecond

SpecApi == InitApi /\ [][NextApi]_vars

\* ================================================================ claims
InCall == {"loop", "createRef", "getRef", "getCommit", "deleteRef", "sleep"}
Holders == {c \in Clients : acquired[c]}
\* c is the only client that ever did anything.
Lone(c) == \A d \in Clients \ {c} : calls[d] = 0

\* C1: with no record in the store beforehand, and within the window in which
\* no record can be older than the TTL, at most one of the concurrent clients
\* holds the lock at a time: a second acquireLock returns true only after the
\* first holder has released.
C1_MutualExclusion ==
  (~RefExists(initialRef) /\ Horizon < LockTTL) => Cardinality(Holders) <= 1

\* C2: a run() given a non-empty mutex-key never finishes with runner-type
\* self-hosted unless it holds the lock of that key.
C2_SelfHostedOnlyWithLock ==
  \A c \in Clients :
    (inRun[c] /\ mutexKey[c] # "" /\ pc[c] = "returned"
       /\ RunnerType(output[c]) = "self-hosted") => acquired[c]

\* C3: the delete of the expiry check destroys only the record that this
\* client read and judged expired, never a record created since.
C3_ReclaimOnlyObserved ==
  [][\A c \in Clients :
       (pc[c] = "deleteRef" /\ pc'[c] # "deleteRef" /\ RefExists(ref)
          /\ ~RefExists(ref'))
         => ref.id = seen[c].id]_vars

\* C7: a record created less than the TTL ago is never judged expired (and so
\* never deleted) by a competing client, whatever commit it points at.
C7_YoungRecordNeverExpired ==
  \A c \in Clients :
    (pc[c] = "deleteRef" /\ seen[c].by # 0) => ~(now - seen[c].at < LockTTL)

\* The crashed-holder scenario of c: a record is left in the store by a holder
\* that never releases it, no other client competes, the store never fails.
Scenario(c) == Lone(c) /\ faults = <<>> /\ RefExists(initialRef)
\* The initial record is older than the TTL at every instant after this one.
ExpiryMoment == CommitDate(initialRef.sha) + LockTTL
\* c's acquireLock returns false in this step.
ReturnsFalse(c) == pc[c] = "loop" /\ pc'[c] \notin InCall
\* c's store call of this step was answered without / with an injected failure.
Answered(c, at) == pc[c] = at /\ pc'[c] # at /\ faults' = faults
Failed(c, at) == pc[c] = at /\ pc'[c] # at /\ faults' # faults

\* C4 as stated: in the crashed-holder scenario, an acquireLock whose timeout
\* extends past the moment the record becomes older than the TTL does not
\* return false.
C4_CrashRecoveryAsStated ==
  [][\A c \in Clients :
       (Scenario(c) /\ ReturnsFalse(c))
         => ~(startTime[c] + timeoutMs[c] > ExpiryMoment)]_vars

\* C4 amended: in the crashed-holder scenario acquireLock never raises and
\* never sleeps once it has found the record older than the TTL; it returns
\* false only when the timeout has elapsed at a check of the loop condition,
\* and then leaves the record in place only if the record was not older than
\* the TTL at its last expiry check.
C4_CrashRecovery ==
  /\ [](\A c \in Clients :
          Scenario(c) =>
            /\ result[c] # "raised"
            /\ (pc[c] = "sleep" => (lockAge[c] >= 0 /\ lockAge[c] <= LockTTL)))
  /\ [][\A c \in Clients :
          (Scenario(c) /\ ReturnsFalse(c))
            => /\ now - startTime[c] >= timeoutMs[c]
               /\ (RefExists(ref) => lockAge[c] <= LockTTL)]_vars

C4_Witness ==
  \E c \in Clients :
    /\ Scenario(c) /\ initialRef.sha = "edge"
    /\ result[c] = "true" /\ ref.by = c /\ now = 2 * TickMs

C6_NonExpiryPreserved ==
  /\ [](initialRef.sha = "new" =>
          /\ ref = initialRef
          /\ \A c \in Clients : pc[c] # "deleteRef" /\ result[c] # "true")
  /\ [][\A c \in Clients :
          /\ (Answered(c, "getCommit") /\ now - CommitDate(seen[c].sha) <= LockTTL)
               => (pc'[c] = "sleep" /\ wakeAt'[c] = now + retryIntervalMs[c]
                   /\ ref' = ref)
          /\ (pc[c] = "sleep" /\ pc'[c] # "sleep") => now >= wakeAt[c]
          /\ (pc[c] = "loop" /\ pc'[c] # "loop" /\ now - startTime[c] >= timeoutMs[c])
               => (result'[c] = "false" /\ pc'[c] \notin InCall /\ ~acquired'[c])]_vars

C6_Witness ==
  \E c \in Clients : initialRef.sha = "new" /\ ref = initialRef /\ result[c] = "false"

\* C8: a record is judged expired exactly when its age is greater than
\* 600000 ms, whatever the arguments of acquireLock and the data of the holder.
C8_StrictFixedTTL ==
  \A c \in Clients :
    /\ pc[c] = "deleteRef" => lockAge[c] > 600000
    /\ (pc[c] \in {"sleep", "loop"} /\ lockAge[c] # NoAge) => lockAge[c] <= 600000

C8_Witness == \E c \in Clients : pc[c] = "sleep" /\ lockAge[c] = 600000

\* C9: a create that fails with an error other than the conflict makes
\* acquireLock raise that error in the same step: no expiry check, no sleep, no
\* change of the store, the handle unacquired and no cleanup handler registered.
C9_CreateErrorRaised ==
  [][\A c \in Clients :
       Failed(c, "createRef")
         => /\ result'[c] = "raised"
            /\ raisedStatus'[c] = faults'[Len(faults')]
            /\ pc'[c] \notin InCall
            /\ ~acquired'[c]
            /\ handlers'[c] = handlers[c]
            /\ ref' = ref
            /\ wakeAt'[c] = wakeAt[c]]_vars

C9_Witness ==
  \E c \in Clients :
    result[c] = "raised" /\ raisedStatus[c] = StatusForbidden /\ pc[c] = "idle"

\* C10: once a store failure that is neither conflict nor absence has hit the
\* expiry check of an acquireLock, that call has raised it to the caller.
C10_CheckErrorRaised ==
  \A c \in Clients : checkFault[c] => (result[c] = "raised" /\ pc[c] \notin InCall)

\* c's releaseLock, or the cleanup of one of its listeners, got the answer of
\* its delete in this step.
ReleaseAnswered(c) ==
  \/ pc[c] = "releaseDelete" /\ pc'[c] # "releaseDelete"
  \/ guard[c] # "none" /\ guard'[c] # guard[c]

\* C11: a timeout is a normal outcome.  The step in which acquireLock leaves
\* its loop because the timeout has elapsed returns false, raises nothing,
\* touches neither the store nor the handle and registers no handler; a first
\* call that returned false leaves the handle unacquired without handlers; and
\* while the record in the store is not older than the TTL and the store does
\* not fail, no call returns true or raises.
C11_TimeoutIsNormal ==
  /\ [][\A c \in Clients :
          ReturnsFalse(c)
            => /\ result'[c] = "false"
               /\ raisedStatus'[c] = raisedStatus[c]
               /\ ~acquired'[c]
               /\ handlers'[c] = handlers[c]
               /\ ref' = ref]_vars
  /\ [](\A c \in Clients :
          /\ (calls[c] = 1 /\ result[c] = "false")
               => (~acquired[c] /\ handlers[c] = 0)
          /\ (initialRef.sha = "new" /\ faults = <<>>)
               => result[c] \in {"none", "false"})

C11_Witness ==
  \E c \in Clients :
    /\ initialRef.sha = "new" /\ faults = <<>> /\ calls[c] = 1
    /\ result[c] = "false" /\ pc[c] = "idle"
    /\ ~acquired[c] /\ handlers[c] = 0 /\ now >= TestTimeoutMs

\* C12: with one client alone, any step taken while its handle is idle and
\* not acquired (releaseLock among them, also after a successful release) and
\* that is not the start of an acquireLock issues no delete and changes
\* neither the store nor the handle; a delete of releaseLock is in flight only
\* for an acquired handle.
C12_IdempotentRelease ==
  /\ [][\A c \in Processes :
          (pc[c] = "idle" /\ ~acquired[c])
            => /\ pc'[c] # "releaseDelete"
               /\ pc'[c] = "idle"
                    => (ref' = ref /\ faults' = faults /\ ~acquired'[c]
                        /\ releaseOutcome'[c] = releaseOutcome[c]
                        /\ handlers'[c] = handlers[c])]_vars
  /\ [](\A c \in Clients : pc[c] = "releaseDelete" => acquired[c])

C12_Witness ==
  \E c \in Clients :
    /\ pc[c] = "idle" /\ ~acquired[c] /\ releaseOutcome[c] = "deleted"
    /\ ~RefExists(ref) /\ calls[c] = MaxCalls

\* C13: once the delete of a releaseLock was answered with absence (the record
\* had been deleted by someone else), releaseLock has completed and the handle
\* is not acquired.
C13_AbsenceTolerated ==
  \A c \in Clients :
    releaseOutcome[c] = "absent"
      => (~acquired[c] /\ pc[c] \in {"idle", "billing", "returned"})

C13_Witness ==
  \E c \in Clients :
    releaseOutcome[c] = "absent" /\ result[c] = "true" /\ pc[c] = "idle"

\* C14: a delete of releaseLock that fails with an error other than absence
\* ends releaseLock normally with the handle still acquired and the store
\* unchanged, and the next releaseLock issues the delete again.
C14_ReleaseNeverRaises ==
  [][\A c \in Clients :
       /\ Failed(c, "releaseDelete")
            => /\ pc'[c] = "idle"
               /\ acquired'[c]
               /\ result'[c] = result[c]
               /\ raisedStatus'[c] = raisedStatus[c]
               /\ ref' = ref
       /\ (pc[c] = "idle" /\ releaseOutcome[c] = "error" /\ pc'[c] # "idle")
            => (acquired[c] /\ pc'[c] = "releaseDelete")]_vars

C14_Witness ==
  \E c \in Clients :
    /\ ~RefExists(initialRef) /\ calls[c] = 1 /\ result[c] = "true"
    /\ faults # <<>> /\ releaseOutcome[c] = "deleted" /\ ~acquired[c]

\* C15: the acquired flag goes from false to true only in the step of a
\* successful create, and from true to false only in the step of a delete of
\* releaseLock that succeeded or was answered with absence.
C15_HandleTransitions ==
  [][\A c \in Clients :
       /\ (~acquired[c] /\ acquired'[c])
            => (Answered(c, "createRef") /\ ~RefExists(ref) /\ ref'.by = c)
       /\ (acquired[c] /\ ~acquired'[c])
            => (ReleaseAnswered(c) /\ faults' = faults /\ ~RefExists(ref'))]_vars

C15_Witness ==
  \E c \in Clients :
    calls[c] = MaxCalls /\ acquired[c] /\ releaseOutcome[c] = "deleted"

\* C16: a handle never has more than one set of cleanup handlers, also when
\* it is acquired, released and acquired again.
C16_HandlersOnce == \A c \in Clients : handlers[c] <= 1

\* C17: a process that is gone and whose handle was acquired when its end
\* began has got a delete of the lock record to the store before it was gone;
\* one whose handle was not acquired has issued none.
C17_ReleaseBeforeGone ==
  \A c \in Clients :
    pc[c] = "exited"
      => IF guardLog[c].held THEN guardLog[c].sent >= 1 ELSE guardLog[c].sent = 0

C19_SignalThenEnd ==
  \A c \in Processes :
    /\ (guard[c] = "signal") ~> (guard[c] = "none")
    /\ (guard[c] = "signal") ~> (pc[c] = "exited")

C19_Witness ==
  \E c \in Processes :
    /\ inRun[c] /\ output[c] = "self-hosted-mutex" /\ pc[c] = "exited"
    /\ guardLog[c].cause = "exit" /\ releaseOutcome[c] = "deleted"

\* The scenario without store failures, the Waiter having called.
ScenarioRuns == faults = <<>> /\ calls[Waiter] = 1
\* floor((releaseTime - callTime) / retryInterval)
RetriesAsStated == (ReleaseAtMs - CallAtMs) \div TestRetryIntervalMs

\* C20 as stated: when the Holder's release takes effect, the Waiter has
\* observed exactly floor((releaseTime - callTime) / retryInterval) conflicts.
C20_RetryCountAsStated ==
  [][(ScenarioRuns /\ RefExists(ref) /\ ~RefExists(ref'))
       => conflicts[Waiter] = RetriesAsStated]_vars

\* C20 amended: by any time t before the release the Waiter has observed at
\* most floor((t - callTime) / retryInterval) + 1 conflicts, so at most
\* floor((releaseTime - callTime) / retryInterval) before the release time;
\* after the release a check of the loop condition made within the timeout
\* leads to a create that returns true, and one made later returns false.
C20_RetryCount ==
  /\ [](ScenarioRuns =>
          /\ conflicts[Waiter] <= ((now - CallAtMs) \div TestRetryIntervalMs) + 1
          /\ now < ReleaseAtMs => conflicts[Waiter] <= RetriesAsStated
          /\ result[Waiter] # "raised"
          /\ result[Waiter] = "true" => (~acquired[Holder] /\ ref.by = Waiter)
          /\ result[Waiter] = "false" => now - CallAtMs >= ScenarioTimeoutMs)
  /\ [][(ScenarioRuns /\ ~RefExists(ref))
          => /\ (pc[Waiter] = "loop" /\ pc'[Waiter] # "loop")
                  => IF now - CallAtMs < ScenarioTimeoutMs
                       THEN pc'[Waiter] = "createRef"
                       ELSE result'[Waiter] = "false"
             /\ (pc[Waiter] = "createRef" /\ pc'[Waiter] # "createRef"
                   /\ faults' = faults)
                  => (result'[Waiter] = "true" /\ acquired'[Waiter])]_vars

C20_Witness ==
  /\ ScenarioRuns /\ conflicts[Waiter] = RetriesAsStated
  /\ result[Waiter] = "true" /\ now = ReleaseAtMs /\ ~acquired[Holder]


\* ------------------------------------------------------------------ C21
\* The acquireLock of c has used up its timeout.
TimeIsUp(c) == now - startTime[c] >= timeoutMs[c]
StoreCalls == {"createRef", "getRef", "getCommit", "deleteRef"}

\* C21 as stated, its last clause: acquireLock returns false at most one retry
\* interval plus one store round-trip after the timeout.  A getCommit that is
\* sent after the timeout and followed by the backoff sleep makes the call last
\* longer than that, so no sleep begins after such a getCommit.
C21_OneRoundTripAsStated ==
  [][\A c \in Processes :
       (pc[c] = "getCommit" /\ pc'[c] = "sleep")
         => ~(askedAt[c] - startTime[c] > timeoutMs[c])]_vars

\* C21: the timeout is tested only at the head of the loop.  A create is sent
\* only while the elapsed time is below timeoutMs, so a call with timeoutMs <= 0
\* returns false at once and leaves the store alone; a sleep ends only when its
\* timer is due, whatever the timeout; false is returned only from the head of
\* the loop, and the head reached after the timeout always returns it.  After
\* the timeout the call therefore finishes the iteration in progress (the create
\* in flight, the reads of the ref and of the commit, the delete of an expired
\* record, one backoff sleep) and starts no other.
C21_TimeoutAtLoopHead ==
  /\ [](\A c \in Processes : pc[c] \in InCall => timeoutMs[c] > 0)
  /\ [][\A c \in Processes :
          /\ (pc[c] # "createRef" /\ pc'[c] = "createRef")
               => /\ pc[c] \in {"idle", "loop"}
                  /\ LoopCondition(now, startTime'[c], timeoutMs'[c])
          /\ (pc[c] = "idle" /\ calls'[c] # calls[c] /\ pc'[c] \notin InCall)
               => /\ result'[c] = "false"
                  /\ ref' = ref /\ faults' = faults /\ nextId' = nextId
          /\ (pc[c] \in InCall /\ pc'[c] = "sleep" /\ pc[c] # "sleep")
               => wakeAt'[c] = now + retryIntervalMs[c]
          /\ (pc[c] = "sleep" /\ pc'[c] # "sleep")
               => /\ now >= wakeAt[c]
                  /\ pc'[c] = "loop"
          /\ (pc[c] \in InCall /\ pc'[c] \notin InCall /\ result'[c] = "false")
               => pc[c] = "loop" /\ TimeIsUp(c)
          /\ (pc[c] = "loop" /\ pc'[c] # "loop" /\ TimeIsUp(c))
               => pc'[c] \notin InCall /\ result'[c] = "false"
          /\ (pc[c] \in StoreCalls /\ pc'[c] \in StoreCalls \ {pc[c]}
                /\ TimeIsUp(c))
               => <<pc[c], pc'[c]>> \in {<<"createRef", "getRef">>,
                                         <<"getRef", "getCommit">>,
                                         <<"getCommit", "deleteRef">>}]_vars

\* The timeout elapsed while c slept, c slept on until the timer was due, and
\* the getCommit of that iteration had been sent after the timeout.
C21_Witness ==
  \E c \in Processes :
    /\ pc[c] = "sleep" /\ faults = <<>>
    /\ TimeIsUp(c) /\ now < wakeAt[c]
    /\ askedAt[c] - startTime[c] > timeoutMs[c]


\* ------------------------------------------------------------------ C22
\* C22: absence during the expiry check is never an error.  When the getRef or
\* the deleteRef of the check finds no record in the store, the client goes
\* straight back to the head of the loop to retry the create: it starts no
\* backoff sleep.
C22_AbsenceNotAnError ==
  [][\A c \in Clients :
       ((Answered(c, "getRef") \/ Answered(c, "deleteRef")) /\ ~RefExists(ref))
         => pc'[c] = "loop"]_vars


\* ------------------------------------------------------------------ C23
\* C23: the expiry decision is a function of what the check read back from the
\* store (the record, and the date of the commit it points at) and of the
\* current time alone; the record in the store carries nothing of the holder's
\* lockData but the sha, and lockData.timestamp is never written.  Executions
\* that differ only in lockData.timestamp therefore decide alike and make the
\* same store calls.
C23_TimestampTrust ==
  /\ [](RefExists(ref) =>
          ref = [sha |-> sha[ref.by], by |-> ref.by, id |-> ref.id, at |-> ref.at])
  /\ [][/\ lockData' = lockData
        /\ \A c \in Clients :
             /\ Answered(c, "getRef") /\ RefExists(ref) => seen'[c] = ref
             /\ Answered(c, "getCommit") =>
                  /\ pc'[c] \in {"deleteRef", "sleep"}
                  /\ pc'[c] = "deleteRef"
                       <=> now - CommitDate(seen[c].sha) > LockTTL]_vars

\* The holder's own timestamp is older than the TTL, yet the record it created
\* is judged not expired by the competing client, which sleeps.
C23_Witness ==
  \E c \in Clients :
    /\ pc[c] = "sleep" /\ RefExists(ref) /\ ref.by \in Clients \ {c}
    /\ lockAge[c] # NoAge /\ ~IsExpired(lockAge[c])
    /\ now - lockData[ref.by].timestamp > LockTTL


\* ------------------------------------------------------------------ C24
\* C24: every request of a client (create, read, delete) names the one ref
\* refs/mutex/<key> of the client's own key, and no other ref of the repository
\* appears or disappears with it: neither the record of another key nor any
\* other ref.
C24_OwnRecordOnly ==
  [][\A c \in Clients :
       lastCall'.by = c /\ (lastCall' # lastCall \/ refs' # refs)
         => /\ lastCall'.name = "refs/mutex/" \o lockKey[c]
            /\ \A n \in (refs \cup refs') \ {"refs/mutex/" \o lockKey[c]} :
                 n \in refs /\ n \in refs']_vars

\* Two clients with different keys: one has just deleted its record, the
\* record of the other is still there.
C24_Witness ==
  \E c, d \in Clients :
    /\ lockKey[c] # lockKey[d]
    /\ lastCall = [by |-> c, op |-> "deleteRef", name |-> "refs/mutex/" \o lockKey[c]]
    /\ "refs/mutex/" \o lockKey[c] \notin refs
    /\ "refs/mutex/" \o lockKey[d] \in refs


\* ------------------------------------------------------------- C25 .. C29
\* run() of c has returned.
Returned(c) == inRun[c] /\ pc[c] = "returned"
\* run() of c has called mutex.acquireLock().
CalledAcquire(c) == pc[c] \in InCall \cup {"afterAcquire"} \/ result[c] # "none"
\* The minutes left according to the billing figures run() was given.
Remaining(reading) ==
  reading.info.included_minutes - reading.info.total_minutes_used

\* C25: without a mutex key, run() reports self-hosted when a self-hosted
\* runner is available, and then does not look at the minutes; otherwise
\* github-hosted when the remaining minutes are at least the limit; otherwise
\* self-hosted as the fallback.  These three cases, in this order, and no other.
C25_SelectionWithoutKey ==
  \A c \in Processes :
    (Returned(c) /\ mutexKey[c] = "" /\ inputs[c].raised = <<>>) =>
      /\ inputs[c].available # <<>>
      /\ IF inputs[c].available = <<TRUE>>
           THEN /\ output[c] = "self-hosted"
                /\ RunnerType(output[c]) = "self-hosted"
                /\ inputs[c].billing = <<>>
           ELSE /\ inputs[c].billing # <<>>
                /\ IF Remaining(inputs[c].billing[1]) >= inputs[c].billing[1].limit
                     THEN /\ output[c] = "github-hosted"
                          /\ RunnerType(output[c]) = "github-hosted"
                     ELSE /\ output[c] = "self-hosted-fallback"
                          /\ RunnerType(output[c]) = "self-hosted"

\* No runner available, the minutes left equal the limit: github-hosted.
C25_Witness ==
  \E c \in Processes :
    /\ Returned(c) /\ mutexKey[c] = "" /\ inputs[c].available = <<FALSE>>
    /\ inputs[c].billing # <<>>
    /\ Remaining(inputs[c].billing[1]) = inputs[c].billing[1].limit
    /\ output[c] = "github-hosted"

\* C26: run() calls acquireLock exactly when the mutex key is not empty and a
\* self-hosted runner was available at the first check; when the lock is
\* acquired and the re-check finds the runners still available, it reports
\* self-hosted with a reason that names the key.
C26_MutexWhenKeyAndAvailable ==
  \A c \in Processes :
    inRun[c] =>
      /\ CalledAcquire(c) <=> (mutexKey[c] # "" /\ inputs[c].available = <<TRUE>>)
      /\ (Returned(c) /\ result[c] = "true" /\ inputs[c].recheck = <<TRUE>>) =>
           /\ output[c] = "self-hosted-mutex"
           /\ RunnerType(output[c]) = "self-hosted"
           /\ \E i \in DOMAIN Reason(output[c], mutexKey[c], inputs[c].billing) :
                Reason(output[c], mutexKey[c], inputs[c].billing)[i] = mutexKey[c]

\* The lock was acquired, the runners were still there, and run() returned
\* with the lock held.
C26_Witness ==
  \E c \in Processes :
    /\ Returned(c) /\ result[c] = "true" /\ inputs[c].recheck = <<TRUE>>
    /\ acquired[c] /\ output[c] = "self-hosted-mutex"

\* C27: when acquireLock returns false, run() does not fail: it goes on to the
\* minutes check, and reports github-hosted when the remaining minutes are at
\* least the limit.
C27_TimeoutFallsBack ==
  \A c \in Processes :
    (inRun[c] /\ result[c] = "false") =>
      /\ pc[c] \in {"afterAcquire", "billing", "returned"}
      /\ output[c] # "failed"
      /\ pc[c] = "returned" =>
           /\ inputs[c].billing # <<>>
           /\ RunnerType(output[c]) # "none"
           /\ Remaining(inputs[c].billing[1]) >= inputs[c].billing[1].limit
                => /\ output[c] = "github-hosted"
                   /\ RunnerType(output[c]) = "github-hosted"

C27_Witness ==
  \E c \in Processes :
    /\ Returned(c) /\ result[c] = "false" /\ output[c] = "github-hosted"
    /\ RefExists(ref)

\* C28: run() tells the two failures of the acquisition apart: it falls back
\* when acquireLock returned false, and it fails the action, selecting no
\* runner, when acquireLock raised.
C28_InfrastructureErrorAborts ==
  \A c \in Processes :
    /\ (Returned(c) /\ result[c] = "false") => output[c] # "failed"
    /\ (Returned(c) /\ result[c] = "raised") => output[c] = "failed"

\* C29: when isOrganization or the fetch of the billing figures raises, run()
\* calls setFailed with "Action failed: <message>" (and a hint, for the common
\* errors) and sets no output; it reads nothing more and never calls
\* acquireLock.
C29_FetchErrorFails ==
  \A c \in Processes :
    (inRun[c] /\ inputs[c].raised # <<>>) =>
      /\ Returned(c)
      /\ output[c] = "failed"
      /\ RunnerType(output[c]) = "none"
      /\ Len(inputs[c].failure) >= 2
      /\ SubSeq(inputs[c].failure, 1, 2)
           = <<"Action failed: ", inputs[c].raised[1].message>>
      /\ inputs[c].available = <<>> /\ inputs[c].billing = <<>>
      /\ ~CalledAcquire(c)

C29_Witness ==
  \E c \in Processes :
    /\ Returned(c) /\ output[c] = "failed"
    /\ inputs[c].raised # <<>>
    /\ inputs[c].raised[1].from = "getBillingInfo"
    /\ inputs[c].failure = <<"Action failed: ", "API Error">>


\* ------------------------------------------------------------------ C30
\* Two names are the same but for the case of their letters.
SameIgnoringCase(a, b) == toUpperCase(a) = toUpperCase(b)

\* C30: hasAvailableSelfHostedRunners(runners, tags) is true exactly when some
\* runner is online, is not busy and has, for every required tag, a label that
\* equals the tag but for the case of the letters; for an empty listing it is
\* false.
C30_AvailableIffMatch ==
  (applied.fn = "hasAvailableSelfHostedRunners" /\ applied.value # <<>>) =>
    LET runners == applied.args[1]
        tags == applied.args[2]
    IN /\ applied.value[1] <=>
            \E r \in DOMAIN runners :
              /\ runners[r].status = "online"
              /\ ~runners[r].busy
              /\ \A t \in DOMAIN tags :
                   \E j \in DOMAIN runners[r].labels :
                     SameIgnoringCase(runners[r].labels[j], tags[t])
       /\ runners = <<>> => ~applied.value[1]

\* The second of two runners is the one that matches, through labels that
\* differ from the tags in case.
C30_Witness ==
  /\ applied.fn = "hasAvailableSelfHostedRunners"
  /\ applied.value = <<TRUE>>
  /\ Len(applied.args[1]) = 2
  /\ applied.args[1][1].status = "offline"
  /\ applied.args[1][2].labels = <<"Linux", "GPU", "self-hosted">>
  /\ applied.args[2] = <<"linux", "gpu">>

\* ------------------------------------------------------------- C31, C32
\* getSelfHostedRunners has settled.
RunnersSettled == applied.fn = "getSelfHostedRunners" /\ applied.value # <<>>
\* The runners of a listing, each with the level they come from.
Tagged(listing, level) ==
  [i \in DOMAIN listing |-> [name |-> listing[i], source |-> level]]
\* The listing was answered with "not configured" or "not accessible".
NotAccessible(answer) == answer.status \in {StatusForbidden, StatusNotFound}
\* r occurs in the requests that were sent.
Requested(r) == \E i \in DOMAIN applied.calls : applied.calls[i] = r

C32_ServerErrorRejects ==
  (RunnersSettled /\ applied.args[2] /\ applied.args[4].status = StatusServerError)
    => applied.value[1].raised = <<applied.args[4]>>

\* ------------------------------------------------------------- C33, C34
\* getBillingInfo has sent the request r.
BillingRequested(r) ==
  applied.fn = "getBillingInfo" /\ \E i \in DOMAIN applied.calls : applied.calls[i] = r
BillingSettled == applied.fn = "getBillingInfo" /\ applied.value # <<>>

\* C33: getBillingInfo calls the enhanced billing API first, and the legacy
\* API only after the enhanced one failed.
C33_EnhancedFirst ==
  (applied.fn = "getBillingInfo" /\ applied.calls # <<>>) =>
    /\ applied.calls[1] = "enhanced"
    /\ BillingRequested("legacy") =>
         /\ applied.calls = <<"enhanced", "legacy">>
         /\ applied.args[3].status # StatusOk

\* C34: when both billing APIs fail, getBillingInfo does not raise: it resolves
\* to total_minutes_used = 0 and included_minutes = 3000.
C34_DefaultsWhenUnavailable ==
  (BillingSettled /\ applied.args[2].status # StatusOk
                  /\ applied.args[3].status # StatusOk) =>
    /\ applied.value[1].raised = <<>>
    /\ applied.value[1].info
         = <<[included_minutes |-> 3000, total_minutes_used |-> 0]>>

\* ------------------------------------------------------------------ C35
\* C35: the delete of a holder's releaseLock removes only a record that this
\* holder created: when the holder's record was reclaimed as expired and
\* another client has created a new one for the key, the former holder's
\* releaseLock leaves the new record alone.
C35_ReleaseOwnRecordOnly ==
  [][\A c \in Clients :
       (pc[c] = "releaseDelete" /\ pc'[c] # "releaseDelete"
          /\ RefExists(ref) /\ ~RefExists(ref'))
         => ref.by = c]_vars

\* ------------------------------------------------------------------ C36
\* run() of c has called mutex.releaseLock(): the delete was sent and answered.
ReleaseCalled(c) == pc[c] = "releaseDelete" \/ releaseOutcome[c] # "none"

\* C36: whenever run() acquired the lock and does not report self-hosted with
\* mutex protection, releaseLock has been called when run() returns, whether
\* the re-check found no runner available or raised.
C36_ReleasedUnlessSelected ==
  \A c \in Processes :
    (Returned(c) /\ result[c] = "true" /\ output[c] # "self-hosted-mutex")
      => ReleaseCalled(c)

\* ------------------------------------------------------------------ C37
\* run() of c has reported self-hosted with mutex protection.
Selected(c) == output[c] = "self-hosted-mutex"

\* C37: when run() selects self-hosted runners with mutex protection it
\* returns with the lock still held: run() issues no release on that path, the
\* handle is acquired and the record is run()'s at the return, and from then
\* on the record is removed only by a cleanup listener of the process (on a
\* signal, on a fault, at the exit) or by another client that reclaims it as
\* expired.
C37_HeldAfterSelection ==
  /\ [](Selected(Runner) => pc[Runner] \in {"returned", "exited"})
  /\ [][/\ (~Selected(Runner) /\ Selected(Runner)') =>
              /\ pc'[Runner] = "returned"
              /\ acquired'[Runner]
              /\ RefExists(ref') /\ ref'.by = Runner
        /\ (Selected(Runner) /\ RefExists(ref) /\ ref.by = Runner /\ ref' # ref) =>
              \/ guard[Runner] # "none" /\ acquired[Runner]
              \/ /\ pc[Runner] = "returned" /\ pc'[Runner] = "exited"
                 /\ guardLog'[Runner].cause = "exit" /\ guardLog'[Runner].sent = 1
              \/ /\ pc[Competitor] = "deleteRef" /\ pc'[Competitor] # "deleteRef"
                 /\ IsExpired(lockAge[Competitor])]_vars

\* ------------------------------------------------------------------ C38
\* The outcomes of run() in which the three outputs are set.
Selections == {"self-hosted", "self-hosted-mutex", "github-hosted", "self-hosted-fallback"}
\* The billing figures run() read, if any, for the reason it gives.
ReadingOf(c) == IF inputs[c].billing = <<>> THEN <<>> ELSE inputs[c].billing[1]

\* C38: every execution of run() ends in exactly one outcome: the outputs are
\* set, once, and setFailed is not called, or setFailed is called, once, and
\* no output is set; the outcome is decided at the step that ends run() and
\* does not change afterwards, and run() ends by returning, whatever
\* acquireLock or the API did.
C38_OneOutcome ==
  /\ [](\A c \in Processes :
          /\ inRun[c] => pc[c] \in InCall \cup {"afterAcquire", "releaseDelete",
                                                "billing", "returned"}
          /\ (inRun[c] /\ ~Returned(c)) => (output[c] = "none" /\ inputs[c].failure = <<>>)
          /\ Returned(c) =>
               \/ /\ output[c] \in Selections
                  /\ RunnerType(output[c]) \in {"self-hosted", "github-hosted"}
                  /\ Reason(output[c], mutexKey[c], ReadingOf(c)) # <<>>
                  /\ inputs[c].failure = <<>>
               \/ /\ output[c] = "failed"
                  /\ RunnerType(output[c]) = "none"
                  /\ Reason(output[c], mutexKey[c], ReadingOf(c)) = <<>>
                  /\ inputs[c].failure # <<>>)
  /\ [][\A c \in Processes :
          /\ output'[c] # output[c] => (output[c] = "none" /\ pc'[c] = "returned")
          /\ inputs'[c].failure # inputs[c].failure =>
               (inputs[c].failure = <<>> /\ output'[c] = "failed")]_vars

\* acquireLock raised, and run() still ended by returning, with the outputs
\* set.
C38_Witness ==
  \E c \in Processes :
    /\ Returned(c) /\ result[c] = "raised"
    /\ output[c] = "self-hosted-fallback"
    /\ inputs[c].failure = <<>>

====
